---- MODULE Spec2Model ----
(***************************************************************************)
(* A model of mobx-document: the single-entity fetch controller (Document),*)
(* the collection fetch controller (Endpoint) and the Database they share. *)
(*                                                                         *)
(* Promises are modelled explicitly.  Every call of performFetch() is an   *)
(* entry of `invocations`; the transport settles it (Settle) and the       *)
(* reaction that fetch() registered on it runs.  A promise's state cannot  *)
(* be read synchronously, so whatever the program does between the        *)
(* settlement and that reaction is the same as doing it before the         *)
(* settlement: the two are one step.  The reactions registered later on    *)
(* the same promise (the coalesced callers of Document.fetch) wait on the  *)
(* microtask queue `jobs` and run in registration order.  Every call of    *)
(* fetch() is an entry of `callers`, which records how the promise handed  *)
(* back to that caller settled.                                            *)
(***************************************************************************)
EXTENDS Integers, Sequences, FiniteSets, TLC

VARIABLES
  kind,         \* which controller the program constructed: "Document" or "Endpoint"
  doc,          \* the Document: data, meta, params, defaultParams, fetchStatus, fetchPromise
  ep,           \* the Endpoint: ids, meta, params, defaultParams, options, fetchStatus, lastFetch*
  documents,    \* Database.documents: identity -> Document (or Null)
  invocations,  \* the calls of performFetch(), in the order they were made
  callers,      \* the calls of fetch(), in the order they were made
  jobs,         \* the microtask queue: the reactions of coalesced callers still to run
  updates,      \* the calls of performOptimisticUpdate()
  last,         \* the name of the operation performed last
  statuses,     \* the arguments of a call of combinedFetchStatus()
  combined,     \* what that call returned ("unset" before the call)
  ids2          \* the ids of a second Endpoint on the same Database

\* the state that only SpecCombined and SpecStore move
aux == <<statuses, combined, ids2>>

vars == <<kind, doc, ep, documents, invocations, callers, jobs, updates, last, aux>>

----------------------------------------------------------------------------
(* Bounds of the model *)

\* performFetch() is invoked at most this many times
MaxFetches == 2
\* fetch() is called at most this many times (directly or through setParams)
MaxCalls == 2
\* performOptimisticUpdate() is called at most this many times
MaxUpdates == 1

----------------------------------------------------------------------------
(* Values *)

\* null / undefined, and a present value v
Null == <<>>
Some(v) == <<v>>
Unwrap(o) == o[1]

\* an optional argument: omitted (undefined) or given (possibly null)
Omitted == [given |-> FALSE, val |-> Null]
Arg(v) == [given |-> TRUE, val |-> v]

\* {}
EmptyObject == <<>>

\* {...a, ...b}
Merge(a, b) ==
  [k \in DOMAIN a \cup DOMAIN b |-> IF k \in DOMAIN b THEN b[k] ELSE a[k]]

\* ytil's objectEquals on plain objects: structural equality
objectEquals(a, b) ==
  /\ DOMAIN a = DOMAIN b
  /\ \A k \in DOMAIN a : a[k] = b[k]

\* the failure values: "E1" comes in an error response, "E2" is a rejection
NoError == "none"

\* the parameter objects the program passes to setParams
ParamInputs == {EmptyObject, "q" :> 1}
\* options.defaultParams
DefaultParamsChoices == {EmptyObject, "q" :> 0 @@ "limit" :> 10}

\* meta objects
M0 == "total" :> 0
M1 == "total" :> 1 @@ "cursor" :> 1

\* identities and entity payloads of the collection
Ids == {"a", "b"}
Item(i, v) == [id |-> i, v |-> v]
getID(item) == item.id

\* the payload {n: 1}, {n: 2}, ... of a single Document is its n;
\* spec.prepare of the optimistic update: n => ({n: n + 1})
prepare(d) == d + 1

----------------------------------------------------------------------------
(* Responses and settlements of the performer's promise *)

NoResponse == [null |-> TRUE, data |-> Null, meta |-> Omitted, error |-> NoError]
SuccessResponse(d, m) == [null |-> FALSE, data |-> d, meta |-> m, error |-> NoError]
ErrorResponse(e) == [null |-> FALSE, data |-> Null, meta |-> Omitted, error |-> e]

\* types.ts isErrorResponse: a plain object whose error field is present
isErrorResponse(response) == ~response.null /\ response.error # NoError

Fulfilled(r) == [state |-> "fulfilled", value |-> r, reason |-> NoError]
Rejected(e) == [state |-> "rejected", value |-> NoResponse, reason |-> e]

\* what performFetch() of a Document can settle with
DocSettlements ==
  {Fulfilled(NoResponse),
   Fulfilled(ErrorResponse("E1")),
   Fulfilled(SuccessResponse(Null, Omitted)),
   Fulfilled(SuccessResponse(Some(1), Omitted)),
   Fulfilled(SuccessResponse(Some(2), Arg(Some(M1)))),
   Rejected("E2")}

\* the item lists of the collection responses
ItemLists ==
  {<<>>, <<Item("a", 2)>>, <<Item("b", 1), Item("a", 1)>>}

\* what performFetch() of an Endpoint can settle with
EpSettlements ==
  {Fulfilled(NoResponse), Fulfilled(ErrorResponse("E1")), Rejected("E2")}
    \cup {Fulfilled(SuccessResponse(items, Omitted)) : items \in ItemLists}
    \cup {Fulfilled(SuccessResponse(<<Item("a", 2)>>, Arg(Some(M1))))}

----------------------------------------------------------------------------
(* Document *)

\* a Document as its constructor leaves it, before initialData is set
NewDocument(defaultParams, initialParams) ==
  [data |-> Null, meta |-> Null,
   params |-> Merge(EmptyObject, initialParams),
   defaultParams |-> Merge(EmptyObject, defaultParams),
   fetchStatus |-> "idle", fetchPromise |-> 0]

\* Document.set(data, meta?, replaceMeta)
DocSet(d, data, meta, replaceMeta) ==
  LET d1 == [d EXCEPT !.data = data]
      d2 == IF meta.given
            THEN IF d1.meta # Null /\ ~replaceMeta
                 THEN [d1 EXCEPT !.meta =
                         Some(Merge(Unwrap(d1.meta),
                                    IF meta.val = Null THEN EmptyObject ELSE Unwrap(meta.val)))]
                 ELSE [d1 EXCEPT !.meta = meta.val]
            ELSE d1
  IN IF d2.data # Null THEN [d2 EXCEPT !.fetchStatus = "done"] ELSE d2

\* Document.clear()
DocCleared(d) == [d EXCEPT !.data = Null, !.meta = Null, !.fetchStatus = "idle"]

\* Document.mergedParams / Endpoint.mergedParams
mergedParams(o) == Merge(o.defaultParams, o.params)

\* a fetch() that never joins the pending fetch
DocCoalesces_Never(d, force) == FALSE

\* Document.fetch(): whether the call is answered from the pending fetch
DocCoalesces(d, force) == ~force /\ d.fetchPromise # 0

\* a new entry of `invocations`: performFetch() called with the merged params (an
\* Endpoint passes them, a Document's performer reads them) while the owner's
\* params were ownerParams
Invocation(params, ownerParams, append) ==
  [params |-> params, ownerParams |-> ownerParams, append |-> append, state |-> "pending"]

\* a new entry of `callers`: the promise fetch() returned, attached to invocation i
Caller(i, coalesced) == [inv |-> i, coalesced |-> coalesced, st |-> "pending"]

\* Document.fetch(options) called on the Document d
DocFetchFrom(d, force) ==
  /\ Len(callers) < MaxCalls
  /\ IF DocCoalesces(d, force)
     THEN \* return this.fetchPromise.then(() => undefined)
          /\ doc' = d
          /\ callers' = Append(callers, Caller(d.fetchPromise, TRUE))
          /\ UNCHANGED invocations
     ELSE /\ Len(invocations) < MaxFetches
          /\ doc' = [d EXCEPT !.fetchStatus = "fetching",
                              !.fetchPromise = Len(invocations) + 1]
          /\ invocations' = Append(invocations, Invocation(mergedParams(d), d.params, FALSE))
          /\ callers' = Append(callers, Caller(Len(invocations) + 1, FALSE))
  /\ UNCHANGED jobs

\* Document.fetch(options)
DocFetch(force) ==
  /\ kind = "Document"
  /\ DocFetchFrom(doc, force)
  /\ last' = "fetch"
  /\ UNCHANGED <<aux, kind, ep, documents, updates>>

\* a setParams that never returns early
SetParamsReturnsEarly_Never(force, firstFetch, paramsBefore, paramsAfter) == FALSE

\* setParams returns before clearing or fetching
SetParamsReturnsEarly(force, firstFetch, paramsBefore, paramsAfter) ==
  ~force /\ ~firstFetch /\ objectEquals(paramsBefore, paramsAfter)

\* setParams: const shouldFetch = ...
ShouldFetch(fetch, fetchStatus) ==
  fetch = "always" \/ (fetch = "refetch" /\ fetchStatus = "done")

\* Document.setParams(params, {fetch, force})
DocSetParams(params, fetch, force) ==
  LET paramsBefore == doc.params
      d1 == [doc EXCEPT !.params = Merge(doc.params, params)]
      firstFetch == doc.fetchStatus = "idle"
  IN /\ kind = "Document"
     /\ IF SetParamsReturnsEarly(force, firstFetch, paramsBefore, d1.params)
        THEN doc' = d1 /\ UNCHANGED <<invocations, callers, jobs>>
        ELSE IF ShouldFetch(fetch, d1.fetchStatus)
             THEN DocFetchFrom(d1, FALSE)
             ELSE doc' = d1 /\ UNCHANGED <<invocations, callers, jobs>>
     /\ last' = "setParams"
     /\ UNCHANGED <<aux, kind, ep, documents, updates>>

\* Document.clear()
DocClear ==
  /\ kind = "Document"
  /\ doc' = DocCleared(doc)
  /\ last' = "clear"
  /\ UNCHANGED <<aux, kind, ep, documents, invocations, callers, jobs, updates>>

\* an onFetchSuccess without its staleness guard
DocOnFetchSuccess_Unguarded(d, promise, response) ==
  LET d1 == [d EXCEPT !.fetchPromise = 0]
  IN IF response.null THEN d1
     ELSE IF ~isErrorResponse(response)
          THEN DocSet([d1 EXCEPT !.fetchStatus = "done"], response.data, response.meta, FALSE)
          ELSE [d1 EXCEPT !.fetchStatus = response.error]

\* Document.onFetchSuccess(promise, response)
DocOnFetchSuccess(d, promise, response) ==
  IF promise # d.fetchPromise THEN d
  ELSE LET d1 == [d EXCEPT !.fetchPromise = 0]
       IN IF response.null THEN d1
          ELSE IF ~isErrorResponse(response)
               THEN DocSet([d1 EXCEPT !.fetchStatus = "done"], response.data, response.meta, FALSE)
               ELSE [d1 EXCEPT !.fetchStatus = response.error]

\* Document.onFetchError(promise, error)
DocOnFetchError(d, promise, error) ==
  IF promise # d.fetchPromise THEN d
  ELSE [d EXCEPT !.fetchPromise = 0, !.fetchStatus = error]

----------------------------------------------------------------------------
(* Optimistic updates *)

\* what spec.update() can settle with
UpdateSettlements ==
  {Fulfilled(ErrorResponse("E1")),
   Fulfilled(SuccessResponse(Some(1), Omitted)),
   Fulfilled(SuccessResponse(Some(2), Arg(Some(M1)))),
   Rejected("E2")}

\* Document.performOptimisticUpdate(spec), up to the await of spec.update()
DocPerformOptimisticUpdate(hasPrepare) ==
  LET original == doc.data
  IN /\ kind = "Document"
     /\ Len(updates) < MaxUpdates
     /\ doc' = IF hasPrepare /\ original # Null
               THEN DocSet(doc, Some(prepare(Unwrap(original))), Omitted, FALSE)
               ELSE doc
     /\ updates' = Append(updates, [original |-> original, prepared |-> hasPrepare,
                                     result |-> "pending"])
     /\ last' = "optimisticUpdate"
     /\ UNCHANGED <<aux, kind, ep, documents, invocations, callers, jobs>>

\* a commit that reports the failure and leaves the provisional data in place
DocCommitOrRollback_NoRollback(d, original, response) ==
  IF isErrorResponse(response)
  THEN [doc |-> d, result |-> "false"]
  ELSE [doc |-> DocSet(d, response.data, response.meta, FALSE), result |-> "true"]

\* Document.performOptimisticUpdate(spec): the runInAction after the await, on
\* the response spec.update() resolved with
DocCommitOrRollback(d, original, response) ==
  IF isErrorResponse(response)
  THEN [doc |-> DocSet(d, original, Omitted, FALSE), result |-> "false"]
  ELSE [doc |-> DocSet(d, response.data, response.meta, FALSE), result |-> "true"]

\* Document.performOptimisticUpdate(spec), from the settlement of spec.update() on;
\* when spec.update() rejects the await throws and the call's promise rejects
DocUpdateSettled(u, settlement) ==
  LET original == updates[u].original
      done == DocCommitOrRollback(doc, original, settlement.value)
  IN /\ kind = "Document"
     /\ updates[u].result = "pending"
     /\ IF settlement.state = "rejected"
        THEN /\ doc' = doc
             /\ updates' = [updates EXCEPT ![u].result = "rejected"]
        ELSE /\ doc' = done.doc
             /\ updates' = [updates EXCEPT ![u].result = done.result]
     /\ last' = (IF settlement.state = "rejected" THEN "updateRejected"
                 ELSE IF isErrorResponse(settlement.value) THEN "updateError"
                 ELSE "updateSuccess")
     /\ UNCHANGED <<aux, kind, ep, documents, invocations, callers, jobs>>

----------------------------------------------------------------------------
(* Database *)

\* options.getDocument(item): the factory makes a fresh Document for the item
getDocument(item) == NewDocument(EmptyObject, EmptyObject)

\* Database.document(id, false)
DatabaseDocument(db, id) == db[id]

\* Database.get(id)
DatabaseGet(db, id) ==
  IF DatabaseDocument(db, id) = Null THEN Null ELSE Unwrap(db[id]).data

\* a store that always takes the Document of the factory
DatabaseStore_AlwaysNew(db, item) ==
  [db EXCEPT ![getID(item)] = Some(DocSet(getDocument(item), Some(item), Omitted, FALSE))]

\* Database.store(item): the documents map afterwards
DatabaseStore(db, item) ==
  LET id == getID(item)
      document == IF DatabaseDocument(db, id) # Null
                  THEN Unwrap(DatabaseDocument(db, id))
                  ELSE getDocument(item)
  IN [db EXCEPT ![id] = Some(DocSet(document, Some(item), Omitted, FALSE))]

\* Database.list(ids)
RECURSIVE DatabaseList(_, _)
DatabaseList(db, ids) ==
  IF ids = <<>> THEN <<>>
  ELSE LET d == db[Head(ids)]
           rest == DatabaseList(db, Tail(ids))
       IN IF d = Null \/ Unwrap(d).data = Null THEN rest
          ELSE <<Unwrap(Unwrap(d).data)>> \o rest

----------------------------------------------------------------------------
(* Endpoint: the operators work on w = [ep |-> the Endpoint, db |-> its Database] *)

\* Document.setMeta(meta)
DocSetMeta(d, meta) == [d EXCEPT !.meta = Some(meta)]

\* Document.mergeMeta(meta): {...this.meta, meta}
DocMergeMeta(d, meta) ==
  IF d.meta = Null THEN d
  ELSE [d EXCEPT !.meta = Some(Merge(Unwrap(d.meta), "meta" :> meta))]

\* Endpoint.add(item, meta?, replaceMeta)
EndpointAdd(w, item, meta, replaceMeta) ==
  LET db1 == DatabaseStore(w.db, item)
      id == getID(item)
      document == Unwrap(db1[id])
      document1 == IF meta # Null
                   THEN IF document.meta # Null /\ ~replaceMeta
                        THEN DocMergeMeta(document, Unwrap(meta))
                        ELSE DocSetMeta(document, Unwrap(meta))
                   ELSE document
  IN [ep |-> [w.ep EXCEPT !.ids = Append(@, id)],
      db |-> [db1 EXCEPT ![id] = Some(document1)]]

\* the loop of Endpoint.append(data, meta?) over plain items
RECURSIVE EndpointAddAll(_, _)
EndpointAddAll(w, data) ==
  IF data = <<>> THEN w
  ELSE EndpointAddAll(EndpointAdd(w, Head(data), Null, FALSE), Tail(data))

\* Endpoint.append(data, meta?)
EndpointAppend(w, data, meta) ==
  LET w1 == EndpointAddAll(w, data)
  IN IF meta.given THEN [w1 EXCEPT !.ep.meta = meta.val] ELSE w1

\* a replace that does not empty ids first
EndpointReplace_KeepsIds(w, data, meta) ==
  [EndpointAppend(w, data, meta) EXCEPT !.ep.fetchStatus = "done"]

\* Endpoint.replace(data, meta?)
EndpointReplace(w, data, meta) ==
  LET w1 == EndpointAppend([w EXCEPT !.ep.ids = <<>>], data, meta)
  IN [w1 EXCEPT !.ep.fetchStatus = "done"]

\* Endpoint.clear()
EpCleared(e) ==
  [e EXCEPT !.ids = <<>>, !.meta = e.options.meta, !.fetchStatus = "idle"]

\* an Endpoint as its constructor leaves it
NewEndpoint(db, options) ==
  LET e == [ids |-> <<>>,
            meta |-> options.meta,
            params |-> Merge(EmptyObject, options.initialParams),
            defaultParams |-> Merge(EmptyObject, options.defaultParams),
            options |-> options,
            fetchStatus |-> "idle",
            lastFetchPromise |-> 0,
            lastFetchParams |-> Null]
      w == [ep |-> e, db |-> db]
  IN IF options.data # Null
     THEN [EndpointReplace(w, Unwrap(options.data), Omitted) EXCEPT !.ep.fetchStatus = "done"]
     ELSE w

\* Endpoint.fetch(): whether the call is answered from the pending fetch
EpCoalesces(e) ==
  /\ e.lastFetchPromise # 0
  /\ e.lastFetchParams # Null
  /\ objectEquals(e.params, Unwrap(e.lastFetchParams))

\* Endpoint.fetch(options) called on the Endpoint e
EpFetchFrom(e, append) ==
  /\ Len(callers) < MaxCalls
  /\ IF EpCoalesces(e)
     THEN \* return this.lastFetchPromise
          /\ ep' = e
          /\ callers' = Append(callers, Caller(e.lastFetchPromise, TRUE))
          /\ UNCHANGED invocations
     ELSE /\ Len(invocations) < MaxFetches
          /\ ep' = [e EXCEPT !.fetchStatus = "fetching",
                             !.lastFetchParams = Some(Merge(EmptyObject, e.params)),
                             !.lastFetchPromise = Len(invocations) + 1]
          /\ invocations' = Append(invocations, Invocation(mergedParams(e), e.params, append))
          /\ callers' = Append(callers, Caller(Len(invocations) + 1, FALSE))
  /\ UNCHANGED jobs

\* Endpoint.fetch(options)
EpFetch(append) ==
  /\ kind = "Endpoint"
  /\ EpFetchFrom(ep, append)
  /\ last' = "fetch"
  /\ UNCHANGED <<aux, kind, doc, documents, updates>>

\* Endpoint.setParams(params, {fetch, clear, force}); a comparator given as `clear`
\* contributes the boolean it returns
EpSetParams(params, fetch, clear, force) ==
  LET paramsBefore == ep.params
      e1 == [ep EXCEPT !.params = Merge(ep.params, params)]
      firstFetch == ep.fetchStatus = "idle"
      e2 == IF clear THEN EpCleared(e1) ELSE e1
  IN /\ kind = "Endpoint"
     /\ IF SetParamsReturnsEarly(force, firstFetch, paramsBefore, e1.params)
        THEN ep' = e1 /\ UNCHANGED <<invocations, callers, jobs>>
        ELSE IF ShouldFetch(fetch, e2.fetchStatus)
             THEN EpFetchFrom(e2, FALSE)
             ELSE ep' = e2 /\ UNCHANGED <<invocations, callers, jobs>>
     /\ last' = "setParams"
     /\ UNCHANGED <<aux, kind, doc, documents, updates>>

\* Endpoint.reset(params?)
EpReset(params) ==
  /\ kind = "Endpoint"
  /\ EpFetchFrom([ep EXCEPT !.params = Merge(ep.defaultParams, params)], FALSE)
  /\ last' = "reset"
  /\ UNCHANGED <<aux, kind, doc, documents, updates>>

\* Endpoint.clear()
EpClear ==
  /\ kind = "Endpoint"
  /\ ep' = EpCleared(ep)
  /\ last' = "clear"
  /\ UNCHANGED <<aux, kind, doc, documents, invocations, callers, jobs, updates>>

\* Endpoint.onFetchSuccess(promise, response, options)
EpOnFetchSuccess(w, promise, response, append) ==
  IF promise # w.ep.lastFetchPromise THEN w
  ELSE LET w1 == [w EXCEPT !.ep.lastFetchPromise = 0, !.ep.lastFetchParams = Null]
       IN IF response.null THEN w1
          ELSE IF isErrorResponse(response)
               THEN [w1 EXCEPT !.ep.fetchStatus = response.error,
                               !.ep.meta = w.ep.options.meta]
               ELSE IF append
                    THEN EndpointAppend([w1 EXCEPT !.ep.fetchStatus = "done"],
                                        response.data, response.meta)
                    ELSE EndpointReplace([w1 EXCEPT !.ep.fetchStatus = "done"],
                                         response.data, response.meta)

\* Endpoint.onFetchError(promise, error)
EpOnFetchError(w, promise, error) ==
  IF promise # w.ep.lastFetchPromise THEN w
  ELSE [w EXCEPT !.ep.lastFetchPromise = 0, !.ep.lastFetchParams = Null,
                 !.ep.fetchStatus = error]

----------------------------------------------------------------------------
(* Promises *)

\* the reactions of the coalesced callers of a Document's invocation i, in the
\* order they were registered with this.fetchPromise.then(() => undefined)
CoalescedReactions(i) ==
  SelectSeq([c \in 1..Len(callers) |-> [inv |-> i, caller |-> c]],
            LAMBDA j : callers[j.caller].inv = i /\ callers[j.caller].coalesced)

\* what the promise of a performFetch() call can settle with
Settlements == IF kind = "Document" THEN DocSettlements ELSE EpSettlements

\* the callers whose promise is settled by the reaction fetch() registered for
\* invocation i: Document.fetch returns promise.then(...) to the caller that
\* started the fetch; Endpoint.fetch hands the one promise to every caller
SettledByReaction(c, i) ==
  /\ callers[c].inv = i
  /\ kind = "Document" => ~callers[c].coalesced

\* the name of the completion of a fetch that settled with `settlement`
Completion(settlement) ==
  IF settlement.state = "rejected" THEN "fetchRejected"
  ELSE IF settlement.value.null THEN "fetchNull"
  ELSE IF isErrorResponse(settlement.value) THEN "fetchError"
  ELSE "fetchSuccess"

\* the transport settles the promise of invocation i and the reaction registered
\* by fetch() runs: onFetchSuccess or onFetchError; the reactions of the coalesced
\* callers (Document) are queued behind it
Settle(i, settlement) ==
  /\ i \in 1..Len(invocations)
  /\ invocations[i].state = "pending"
  /\ LET w == [ep |-> ep, db |-> documents]
         w1 == IF settlement.state = "fulfilled"
               THEN EpOnFetchSuccess(w, i, settlement.value, invocations[i].append)
               ELSE EpOnFetchError(w, i, settlement.reason)
     IN IF kind = "Document"
        THEN /\ doc' = IF settlement.state = "fulfilled"
                       THEN DocOnFetchSuccess(doc, i, settlement.value)
                       ELSE DocOnFetchError(doc, i, settlement.reason)
             /\ UNCHANGED <<ep, documents>>
        ELSE /\ ep' = w1.ep
             /\ documents' = w1.db
             /\ UNCHANGED doc
  /\ invocations' = [invocations EXCEPT ![i].state = settlement.state]
  /\ callers' = [c \in 1..Len(callers) |->
                   IF SettledByReaction(c, i)
                   THEN [callers[c] EXCEPT !.st = "resolved"]
                   ELSE callers[c]]
  /\ jobs' = jobs \o (IF kind = "Document" THEN CoalescedReactions(i) ELSE <<>>)
  /\ last' = Completion(settlement)
  /\ UNCHANGED <<aux, kind, updates>>

\* how the promise p.then(() => undefined) settles once p has
CoalescedOutcome(state) ==
  IF state = "fulfilled" THEN "resolved" ELSE "rejected"

\* the reaction of a coalesced caller of Document.fetch runs
RunCoalescedReaction ==
  /\ jobs # <<>>
  /\ callers' = [callers EXCEPT ![Head(jobs).caller].st =
                   CoalescedOutcome(invocations[Head(jobs).inv].state)]
  /\ jobs' = Tail(jobs)
  /\ last' = "coalescedSettled"
  /\ UNCHANGED <<aux, kind, doc, ep, documents, invocations, updates>>

----------------------------------------------------------------------------
(* The program *)

\* new Document(id, options)
InitDocument ==
  /\ kind = "Document"
  /\ \E defaultParams \in DefaultParamsChoices, initialData \in {Null, Some(1)} :
       doc = IF initialData # Null
             THEN DocSet(NewDocument(defaultParams, EmptyObject), initialData, Omitted, FALSE)
             ELSE NewDocument(defaultParams, EmptyObject)
  /\ ep = NewEndpoint([i \in Ids |-> Null],
                      [defaultParams |-> EmptyObject, initialParams |-> EmptyObject,
                       data |-> Null, meta |-> Null]).ep
  /\ documents = [i \in Ids |-> Null]

\* new Database(options); new Endpoint(database, options)
InitEndpoint ==
  /\ kind = "Endpoint"
  /\ doc = NewDocument(EmptyObject, EmptyObject)
  /\ \E meta \in {Null, Some(M0)} :
       LET w == NewEndpoint([i \in Ids |-> Null],
                            [defaultParams |-> "q" :> 0 @@ "limit" :> 10,
                             initialParams |-> EmptyObject,
                             data |-> Null, meta |-> meta])
       IN ep = w.ep /\ documents = w.db

\* no call of combinedFetchStatus and no second Endpoint
InitAux ==
  /\ statuses = <<>>
  /\ combined = "unset"
  /\ ids2 = <<>>

\* no fetch and no optimistic update has been made
InitCalls ==
  /\ invocations = <<>>
  /\ callers = <<>>
  /\ jobs = <<>>
  /\ updates = <<>>
  /\ last = "new"

Init ==
  /\ InitDocument \/ InitEndpoint
  /\ InitCalls
  /\ InitAux

\* the fetch lifecycle of a Document
NextDocument ==
  \/ \E force \in BOOLEAN : DocFetch(force)
  \/ \E params \in ParamInputs, fetch \in {"always", "refetch", "never"}, force \in BOOLEAN :
       DocSetParams(params, fetch, force)
  \/ DocClear

\* the fetch lifecycle of an Endpoint
NextEndpoint ==
  \/ \E append \in BOOLEAN : EpFetch(append)
  \/ \E params \in ParamInputs, fetch \in {"always", "refetch", "never"},
        clear \in BOOLEAN, force \in BOOLEAN :
       EpSetParams(params, fetch, clear, force)
  \/ \E params \in ParamInputs : EpReset(params)
  \/ EpClear

\* the transport and the microtask queue
NextPromises ==
  \/ \E i \in 1..Len(invocations), settlement \in Settlements : Settle(i, settlement)
  \/ RunCoalescedReaction

Next == NextDocument \/ NextEndpoint \/ NextPromises

\* a Document or an Endpoint and its fetches
Spec == Init /\ [][Next]_vars

\* the transport settles every promise it handed out, and the microtask queue
\* runs every reaction on it
Settling ==
  /\ WF_vars(\E i \in 1..Len(invocations), settlement \in Settlements : Settle(i, settlement))
  /\ WF_vars(RunCoalescedReaction)

\* a Document or an Endpoint whose fetches all settle
SpecSettling == Init /\ [][Next]_vars /\ Settling

\* a Document whose subclass makes optimistic updates
InitUpdates == InitDocument /\ InitCalls /\ InitAux

NextUpdates ==
  \/ \E force \in BOOLEAN : DocFetch(force)
  \/ DocClear
  \/ \E hasPrepare \in BOOLEAN : DocPerformOptimisticUpdate(hasPrepare)
  \/ \E u \in 1..Len(updates), settlement \in UpdateSettlements : DocUpdateSettled(u, settlement)
  \/ NextPromises

SpecUpdates == InitUpdates /\ [][NextUpdates]_vars

----------------------------------------------------------------------------
(* combinedFetchStatus *)

\* the longest argument list of combinedFetchStatus()
MaxStatuses == 4

\* FetchStatus: 'idle' | 'fetching' | 'done' | Error
ErrorValues == {"E1", "E2"}
FetchStatuses == {"idle", "fetching", "done"} \cup ErrorValues

\* s instanceof Error
instanceofError(s) == s \notin {"idle", "fetching", "done"}

\* the argument lists of combinedFetchStatus()
StatusLists == UNION {[1..n -> FetchStatuses] : n \in 0..MaxStatuses}

\* a combinedFetchStatus that returns the error listed last
combinedFetchStatus_LastError(statuses_) ==
  IF \A k \in 1..Len(statuses_) : statuses_[k] = "idle" THEN "idle"
  ELSE IF \E k \in 1..Len(statuses_) : statuses_[k] = "fetching" THEN "fetching"
  ELSE LET errors == SelectSeq(statuses_, instanceofError)
       IN IF Len(errors) > 0 THEN errors[Len(errors)]
          ELSE IF /\ \E k \in 1..Len(statuses_) : statuses_[k] = "idle"
                  /\ \E k \in 1..Len(statuses_) : statuses_[k] = "done"
               THEN "fetching"
               ELSE "done"

\* combinedFetchStatus(...statuses)
combinedFetchStatus(statuses_) ==
  IF \A k \in 1..Len(statuses_) : statuses_[k] = "idle" THEN "idle"
  ELSE IF \E k \in 1..Len(statuses_) : statuses_[k] = "fetching" THEN "fetching"
  ELSE LET errors == SelectSeq(statuses_, instanceofError)
       IN IF Len(errors) > 0 THEN errors[1]
          ELSE IF /\ \E k \in 1..Len(statuses_) : statuses_[k] = "idle"
                  /\ \E k \in 1..Len(statuses_) : statuses_[k] = "done"
               THEN "fetching"
               ELSE "done"

\* a call of combinedFetchStatus() on the statuses held
Combine ==
  /\ combined = "unset"
  /\ combined' = combinedFetchStatus(statuses)
  /\ last' = "combinedFetchStatus"
  /\ UNCHANGED <<kind, doc, ep, documents, invocations, callers, jobs, updates,
                 statuses, ids2>>

\* the statuses of any number of Documents and Endpoints, about to be combined
InitCombined ==
  /\ kind = "statuses"
  /\ doc = Null
  /\ ep = Null
  /\ documents = [id \in Ids |-> Null]
  /\ InitCalls
  /\ statuses \in StatusLists
  /\ combined = "unset"
  /\ ids2 = <<>>

NextCombined == Combine

SpecCombined == InitCombined /\ [][NextCombined]_vars

----------------------------------------------------------------------------
(* Database and the list operations of Endpoint *)

\* Endpoint.ids holds at most this many identities
MaxIds == 3

\* DatabaseOptions.emptyDocument(id)
emptyDocument(id) == NewDocument(EmptyObject, EmptyObject)

\* Database.document(id, create = true): the value of create
CreateOrDefault(create) == IF create.given THEN create.val ELSE TRUE

\* Database.document(id, create): the documents map afterwards
DatabaseDocumentIn(db, id, create) ==
  IF ~CreateOrDefault(create) \/ db[id] # Null THEN db
  ELSE [db EXCEPT ![id] = Some(emptyDocument(id))]

\* Database.listDocuments(ids, create?): the documents map afterwards
RECURSIVE DatabaseListDocumentsIn(_, _, _)
DatabaseListDocumentsIn(db, ids, create) ==
  IF ids = <<>> THEN db
  ELSE DatabaseListDocumentsIn(DatabaseDocumentIn(db, Head(ids), create), Tail(ids), create)

\* Database.listDocuments(ids, create?): the Documents returned, with their identities
DatabaseListDocuments(db, ids, create) ==
  LET db1 == DatabaseListDocumentsIn(db, ids, create)
      found == SelectSeq(ids, LAMBDA id : db1[id] # Null)
  IN [k \in 1..Len(found) |-> [id |-> found[k], document |-> Unwrap(db1[found[k]])]]

\* Database.delete(id)
DatabaseDelete(db, id) == [db EXCEPT ![id] = Null]

\* Database.clear()
DatabaseClear(db) == [id \in DOMAIN db |-> Null]

\* ids.includes(id)
Includes(ids, id) == \E k \in 1..Len(ids) : ids[k] = id

\* AppendOptions.ignoreIfExists, true when left out
IgnoreIfExists(options) == IF options.given THEN options.val ELSE TRUE

\* an appendID that never looks at ids
EndpointAppendID_Always(ids, id, options) == Append(ids, id)

\* Endpoint.appendID(id, options): ids afterwards
EndpointAppendID(ids, id, options) ==
  IF IgnoreIfExists(options) /\ Includes(ids, id) THEN ids ELSE Append(ids, id)

\* Endpoint.appendIDs(ids, options): ids afterwards
RECURSIVE EndpointAppendIDs(_, _, _)
EndpointAppendIDs(ids, given, options) ==
  IF given = <<>> THEN ids
  ELSE EndpointAppendIDs(EndpointAppendID(ids, Head(given), options), Tail(given), options)

\* the loop of Endpoint.remove over the ids to delete
RECURSIVE DatabaseDeleteAll(_, _)
DatabaseDeleteAll(db, ids) ==
  IF ids = <<>> THEN db ELSE DatabaseDeleteAll(DatabaseDelete(db, Head(ids)), Tail(ids))

\* a remove that leaves the Database alone
EndpointRemove_KeepsDocuments(w, ids, deleteFromDB) ==
  [ep |-> [w.ep EXCEPT !.ids = SelectSeq(@, LAMBDA id : ~Includes(ids, id))],
   db |-> w.db]

\* Endpoint.remove(ids, deleteFromDB = true)
EndpointRemove(w, ids, deleteFromDB) ==
  [ep |-> [w.ep EXCEPT !.ids = SelectSeq(@, LAMBDA id : ~Includes(ids, id))],
   db |-> IF CreateOrDefault(deleteFromDB) THEN DatabaseDeleteAll(w.db, ids) ELSE w.db]

\* the items, identity lists and meta the operations are called with
StoreItems == {Item("a", 1), Item("a", 2), Item("b", 1)}
IdLists == {<<"a">>, <<"a", "b">>, <<"b", "b">>}
\* the calls of add: a plain item, or an item with the meta of its Document
AddInputs ==
  {[item |-> Item("a", 1), meta |-> Null],
   [item |-> Item("a", 1), meta |-> Some(M1)],
   [item |-> Item("a", 2), meta |-> Some(M0)],
   [item |-> Item("b", 1), meta |-> Null]}
OptionalBooleans == {Omitted, Arg(TRUE), Arg(FALSE)}

\* what the list operations leave alone
StoreFrame == <<kind, doc, invocations, callers, jobs, updates, statuses, combined>>

\* Database.store(item)
Store(item) ==
  /\ documents' = DatabaseStore(documents, item)
  /\ last' = "store"
  /\ UNCHANGED <<StoreFrame, ep, ids2>>

\* Database.document(id)
DocumentOf(id) ==
  /\ documents' = DatabaseDocumentIn(documents, id, Omitted)
  /\ last' = "document"
  /\ UNCHANGED <<StoreFrame, ep, ids2>>

\* Database.delete(id)
Delete(id) ==
  /\ documents' = DatabaseDelete(documents, id)
  /\ last' = "delete"
  /\ UNCHANGED <<StoreFrame, ep, ids2>>

\* Database.clear()
ClearDatabase ==
  /\ documents' = DatabaseClear(documents)
  /\ last' = "clearDatabase"
  /\ UNCHANGED <<StoreFrame, ep, ids2>>

\* Document.mergeMeta(meta) on the Document registered for id
MergeMeta(id, meta) ==
  /\ documents[id] # Null
  /\ documents' = [documents EXCEPT ![id] = Some(DocMergeMeta(Unwrap(@), meta))]
  /\ last' = "mergeMeta"
  /\ UNCHANGED <<StoreFrame, ep, ids2>>

\* Endpoint.add(item, meta?, replaceMeta)
Add(item, meta, replaceMeta) ==
  /\ Len(ep.ids) < MaxIds
  /\ LET w == EndpointAdd([ep |-> ep, db |-> documents], item, meta, replaceMeta)
     IN ep' = w.ep /\ documents' = w.db
  /\ last' = "add"
  /\ UNCHANGED <<StoreFrame, ids2>>

\* Endpoint.append(data)
AppendData(data) ==
  /\ Len(ep.ids) + Len(data) <= MaxIds
  /\ LET w == EndpointAppend([ep |-> ep, db |-> documents], data, Omitted)
     IN ep' = w.ep /\ documents' = w.db
  /\ last' = "append"
  /\ UNCHANGED <<StoreFrame, ids2>>

\* Endpoint.appendIDs(ids, options)
AppendIDs(given, options) ==
  /\ Len(ep.ids) + Len(given) <= MaxIds
  /\ ep' = [ep EXCEPT !.ids = EndpointAppendIDs(@, given, options)]
  /\ last' = "appendIDs"
  /\ UNCHANGED <<StoreFrame, documents, ids2>>

\* appendIDs(ids) on the second Endpoint
AppendIDs2(given) ==
  /\ ids2' = EndpointAppendIDs(ids2, given, Omitted)
  /\ last' = "appendIDs2"
  /\ UNCHANGED <<StoreFrame, ep, documents>>

\* Endpoint.remove(ids, deleteFromDB)
Remove(given, deleteFromDB) ==
  /\ LET w == EndpointRemove([ep |-> ep, db |-> documents], given, deleteFromDB)
     IN ep' = w.ep /\ documents' = w.db
  /\ last' = "remove"
  /\ UNCHANGED <<StoreFrame, ids2>>

\* a read of Endpoint.documents: this.database.listDocuments(this.ids)
ReadDocuments ==
  /\ documents' = DatabaseListDocumentsIn(documents, ep.ids, Omitted)
  /\ last' = "documents"
  /\ UNCHANGED <<StoreFrame, ep, ids2>>

\* a read of Endpoint.data, count or empty
ReadData ==
  /\ last' = "data"
  /\ UNCHANGED <<StoreFrame, ep, documents, ids2>>

\* an Endpoint on an empty Database, and a second Endpoint on the same Database
InitStore ==
  /\ kind = "Endpoint"
  /\ doc = NewDocument(EmptyObject, EmptyObject)
  /\ LET w == NewEndpoint([id \in Ids |-> Null],
                          [defaultParams |-> EmptyObject, initialParams |-> EmptyObject,
                           data |-> Null, meta |-> Null])
     IN ep = w.ep /\ documents = w.db
  /\ InitCalls
  /\ InitAux

NextStore ==
  \/ \E item \in StoreItems : Store(item)
  \/ \E id \in Ids : DocumentOf(id)
  \/ \E id \in Ids : Delete(id)
  \/ ClearDatabase
  \/ MergeMeta("a", M0)
  \/ \E input \in AddInputs, replaceMeta \in BOOLEAN :
       Add(input.item, input.meta, replaceMeta)
  \/ \E data \in ItemLists : AppendData(data)
  \/ \E given \in IdLists, options \in OptionalBooleans : AppendIDs(given, options)
  \/ \E given \in IdLists : AppendIDs2(given)
  \/ \E given \in IdLists, deleteFromDB \in OptionalBooleans : Remove(given, deleteFromDB)
  \/ ReadDocuments
  \/ ReadData

SpecStore == InitStore /\ [][NextStore]_vars

----------------------------------------------------------------------------
(* Vocabulary of the properties *)

FetchOptions == {"always", "refetch", "never"}

\* fetchStatus, data / ids and meta of the owner
OwnerState ==
  IF kind = "Document"
  THEN <<doc.fetchStatus, doc.data, doc.meta>>
  ELSE <<ep.fetchStatus, ep.ids, DatabaseList(documents, ep.ids), ep.meta>>

OwnerStatus == IF kind = "Document" THEN doc.fetchStatus ELSE ep.fetchStatus
OwnerParams == IF kind = "Document" THEN doc.params ELSE ep.params

\* the fetch issued most recently has not completed
InFlight ==
  /\ invocations # <<>>
  /\ invocations[Len(invocations)].state = "pending"

\* invocation i completes in this step
Completes(i) == invocations[i].state = "pending" /\ invocations'[i].state # "pending"

\* the identities of the items of a response, in response order
RECURSIVE IdsOf(_)
IdsOf(items) ==
  IF items = <<>> THEN <<>> ELSE <<getID(Head(items))>> \o IdsOf(Tail(items))

\* a response that is neither null nor an error response
IsSuccess(settlement) ==
  /\ settlement.state = "fulfilled"
  /\ ~settlement.value.null
  /\ ~isErrorResponse(settlement.value)

----------------------------------------------------------------------------
(* C1 *)

\* C1: the completion of a superseded fetch (one after which a later fetch was
\* issued), resolved or rejected, before or after the later fetch completes,
\* changes neither fetchStatus nor data / ids nor meta of its owner
C1_SupersededCompletionDropped ==
  [][\A i \in 1..Len(invocations) :
       (Completes(i) /\ i < Len(invocations)) => OwnerState' = OwnerState]_vars

\* fetch A of an Endpoint resolved with items while fetch B, issued after the
\* params changed, is pending: the Endpoint is still fetching and has no ids
C1_Witness ==
  /\ kind = "Endpoint"
  /\ last = "fetchSuccess"
  /\ Len(invocations) = 2
  /\ invocations[1].ownerParams # invocations[2].ownerParams
  /\ invocations[1].state = "fulfilled"
  /\ invocations[2].state = "pending"
  /\ ep.fetchStatus = "fetching"
  /\ ep.ids = <<>>

----------------------------------------------------------------------------
(* C2 *)

\* C2: a fetch() made while a fetch is in flight with the same effective params
\* (Document: without force; Endpoint: the params equal those the request in
\* flight was issued with) invokes no performer, and the promise of every caller
\* settles only once the completion of its invocation has been applied
C2_Coalescing ==
  /\ [](\A c \in 1..Len(callers) :
          callers[c].st # "pending" => invocations[callers[c].inv].state # "pending")
  /\ [][(/\ InFlight
         /\ \/ DocFetch(FALSE)
            \/ /\ \E append \in BOOLEAN : EpFetch(append)
               /\ objectEquals(ep.params, invocations[Len(invocations)].ownerParams))
        => UNCHANGED invocations]_vars

\* two callers of Document.fetch() shared one performer invocation, and both
\* promises have settled after its response made the Document done
C2_Witness ==
  /\ kind = "Document"
  /\ Len(invocations) = 1
  /\ Len(callers) = 2
  /\ callers[2].coalesced
  /\ callers[1].st = "resolved"
  /\ callers[2].st = "resolved"
  /\ doc.fetchStatus = "done"

----------------------------------------------------------------------------
(* C3 *)

\* C3: the promise fetch() returns never rejects, for any caller, coalesced or not
C3_FetchNeverRejects ==
  \A c \in 1..Len(callers) : callers[c].st # "rejected"

----------------------------------------------------------------------------
(* C4 *)

\* this step is a setParams without force
SetParamsUnforced ==
  \E params \in ParamInputs, fetch \in FetchOptions :
    \/ DocSetParams(params, fetch, FALSE)
    \/ \E clear \in BOOLEAN : EpSetParams(params, fetch, clear, FALSE)

----------------------------------------------------------------------------
(* C5, C6 *)

\* C5: when update() resolves with an error response after prepare was applied
\* to data d, data is d again and the call returns false
C5_RollbackOnErrorResponse ==
  [][\A u \in 1..Len(updates), settlement \in UpdateSettlements :
       (/\ DocUpdateSettled(u, settlement)
        /\ settlement.state = "fulfilled"
        /\ isErrorResponse(settlement.value)
        /\ updates[u].prepared
        /\ updates[u].original # Null)
       => (doc'.data = updates[u].original /\ updates'[u].result = "false")]_vars

\* an optimistic update of {n: 1} with prepare got an error response: the call
\* returned false and data is {n: 1}
C5_Witness ==
  /\ last = "updateError"
  /\ Len(updates) = 1
  /\ updates[1].prepared
  /\ updates[1].original = Some(1)
  /\ updates[1].result = "false"
  /\ doc.data = Some(1)

\* C6: when update() rejects after prepare was applied to data d, data is d
\* again and the call returns false
C6_RollbackOnRejection ==
  [][\A u \in 1..Len(updates), settlement \in UpdateSettlements :
       (/\ DocUpdateSettled(u, settlement)
        /\ settlement.state = "rejected"
        /\ updates[u].prepared
        /\ updates[u].original # Null)
       => (doc'.data = updates[u].original /\ updates'[u].result = "false")]_vars

----------------------------------------------------------------------------
(* C7, C8 *)

C8_FetchFailureResetsMeta ==
  [][\A i \in 1..Len(invocations), settlement \in EpSettlements :
       (/\ kind = "Endpoint"
        /\ Settle(i, settlement)
        /\ i = Len(invocations)
        /\ settlement.state = "rejected" \/ isErrorResponse(settlement.value))
       => /\ ep'.fetchStatus = (IF settlement.state = "rejected"
                                THEN settlement.reason ELSE settlement.value.error)
          /\ ep'.meta = ep.options.meta]_vars

----------------------------------------------------------------------------
(* C9, C10 *)

\* C9: a fetch() of a Document that has neither params nor default params, and
\* that does not join a pending fetch, invokes no performer and does not make
\* the Document fetching
C9_FetchRequiresParams ==
  [][\A force \in BOOLEAN :
       (/\ DocFetch(force)
        /\ force \/ ~InFlight
        /\ doc.params = EmptyObject
        /\ doc.defaultParams = EmptyObject)
       => (UNCHANGED invocations /\ doc'.fetchStatus # "fetching")]_vars

\* this step invokes the performer with the owner's new merged params
InvokesWithNewParams ==
  /\ Len(invocations') = Len(invocations) + 1
  /\ invocations'[Len(invocations')].params =
       (IF kind = "Document" THEN mergedParams(doc') ELSE mergedParams(ep'))

\* C10: a setParams with fetch = 'always' that changes the params or is forced
\* invokes the performer with the new merged params in every fetchStatus, also
\* while an earlier fetch is in flight; with fetch = 'never' none is invoked
C10_SetParamsAlwaysFetches ==
  [][\A params \in ParamInputs, force \in BOOLEAN :
       /\ (/\ \/ DocSetParams(params, "always", force)
              \/ \E clear \in BOOLEAN : EpSetParams(params, "always", clear, force)
           /\ force \/ ~objectEquals(OwnerParams', OwnerParams))
          => InvokesWithNewParams
       /\ (\/ DocSetParams(params, "never", force)
           \/ \E clear \in BOOLEAN : EpSetParams(params, "never", clear, force))
          => UNCHANGED invocations]_vars

----------------------------------------------------------------------------
(* C11 *)

\* the decision C11 states
ReferenceStatus(statuses_) ==
  LET given == {statuses_[k] : k \in 1..Len(statuses_)}
      errorAt == {k \in 1..Len(statuses_) : statuses_[k] \in ErrorValues}
  IN IF given \subseteq {"idle"} THEN "idle"
     ELSE IF "fetching" \in given THEN "fetching"
     ELSE IF errorAt # {}
          THEN statuses_[CHOOSE k \in errorAt : \A j \in errorAt : k <= j]
     ELSE IF given = {"idle", "done"} THEN "fetching"
     ELSE "done"

\* C11: combinedFetchStatus returns idle if all inputs are idle; otherwise
\* fetching if any is fetching; otherwise the first error in input order;
\* otherwise fetching if idle and done inputs are mixed; otherwise done
C11_CombinedIsReference ==
  combined # "unset" => combined = ReferenceStatus(statuses)

\* idle, done and two different errors were combined: the error listed first
C11_Witness ==
  /\ statuses = <<"idle", "done", "E2", "E1">>
  /\ combined = "E2"

----------------------------------------------------------------------------
(* C12 .. C16, C19: the Database and the list operations *)

\* how often id occurs in ids
Count(ids, id) == Cardinality({k \in 1..Len(ids) : ids[k] = id})

\* the fields of a Document that store(item) does not write
KeptByStore == {"meta", "params", "defaultParams", "fetchPromise"}

\* C12: the Database holds one Document per identity; store(item) on a
\* registered identity sets the data of the Document registered there, which
\* keeps the rest of its state; on an unregistered identity it registers one
\* new Document; no other identity is touched, and get(getID(item)) is item
C12_StoreUpserts ==
  [][\A item \in StoreItems :
       Store(item) =>
         LET id == getID(item)
         IN /\ DOMAIN documents' = Ids
            /\ \A other \in Ids \ {id} : documents'[other] = documents[other]
            /\ documents'[id] # Null
            /\ DatabaseGet(documents', id) = Some(item)
            /\ documents[id] # Null =>
                 \A f \in KeptByStore :
                   Unwrap(documents'[id])[f] = Unwrap(documents[id])[f]]_vars

\* item a was stored over the Document that add() had given meta: the Document
\* has the new data and still has its meta
C12_Witness ==
  /\ last = "store"
  /\ documents["a"] # Null
  /\ Unwrap(documents["a"]).meta = Some(M1)
  /\ DatabaseGet(documents, "a") = Some(Item("a", 2))

\* the data the second Endpoint yields
Data2 == DatabaseList(documents, ids2)

\* C13: after remove(ids) with deleteFromDB = true (the default) none of ids is
\* in the Endpoint's ids, get() returns null for each of them, and a second
\* Endpoint on the same Database yields no data for them; with deleteFromDB =
\* false only the Endpoint's ids change
C13_RemoveDeletes ==
  [][\A given \in IdLists, deleteFromDB \in OptionalBooleans :
       Remove(given, deleteFromDB) =>
         /\ \A k \in 1..Len(given) : ~Includes(ep'.ids, given[k])
         /\ \A id \in Ids : ~Includes(given, id) => Count(ep'.ids, id) = Count(ep.ids, id)
         /\ ids2' = ids2
         /\ IF deleteFromDB = Arg(FALSE)
            THEN documents' = documents /\ Data2' = Data2
            ELSE /\ \A k \in 1..Len(given) : DatabaseGet(documents', given[k]) = Null
                 /\ \A j \in 1..Len(Data2') : ~Includes(given, getID(Data2'[j]))]_vars

\* after a remove the second Endpoint still lists a and b, a is gone from the
\* first Endpoint and from the Database, and the second Endpoint yields only b
C13_Witness ==
  /\ last = "remove"
  /\ ids2 = <<"a", "b">>
  /\ ~Includes(ep.ids, "a")
  /\ DatabaseGet(documents, "a") = Null
  /\ Data2 = <<Item("b", 1)>>

\* C14: appendIDs with ignoreIfExists left out or true leaves the occurrences of
\* an identity that is in ids as they are and adds one occurrence, at the end,
\* of each given identity that is not; with ignoreIfExists = false it appends
\* every given identity; the Database is not written
C14_AppendIDsDeduplicates ==
  [][\A given \in IdLists, options \in OptionalBooleans :
       AppendIDs(given, options) =>
         /\ documents' = documents
         /\ SubSeq(ep'.ids, 1, Len(ep.ids)) = ep.ids
         /\ IF options = Arg(FALSE)
            THEN ep'.ids = ep.ids \o given
            ELSE \A id \in Ids :
                   Count(ep'.ids, id) =
                     (IF Count(ep.ids, id) > 0 THEN Count(ep.ids, id)
                      ELSE IF Includes(given, id) THEN 1 ELSE 0)]_vars

\* appendIDs was called with b twice on an Endpoint that held a: b was added
\* once, and nothing is registered in the Database
C14_Witness ==
  /\ last = "appendIDs"
  /\ ep.ids = <<"a", "b">>
  /\ \A id \in Ids : documents[id] = Null

\* C15: append(data) leaves the number of occurrences of every identity that
\* is already in ids as it is
C15_AppendDeduplicates ==
  [][\A data \in ItemLists :
       AppendData(data) =>
         \A id \in Ids :
           Count(ep.ids, id) > 0 => Count(ep'.ids, id) = Count(ep.ids, id)]_vars

\* the meta C16 states for a Document with meta `prior` that is given `meta`
MergedMeta(prior, meta, replaceMeta) ==
  IF replaceMeta \/ prior = Null THEN Some(meta) ELSE Some(Merge(Unwrap(prior), meta))

\* the meta of the Document registered for id, null if there is none
MetaOf(db, id) == IF db[id] = Null THEN Null ELSE Unwrap(db[id]).meta

\* C16: add(item, meta) without replaceMeta on a Document that has meta, and
\* mergeMeta(meta) on a Document that has meta, leave the shallow merge of the
\* prior and the given meta; with replaceMeta or without prior meta, add leaves
\* the given meta
C16_MetaMerge ==
  [][/\ \A input \in AddInputs, replaceMeta \in BOOLEAN :
          (Add(input.item, input.meta, replaceMeta) /\ input.meta # Null) =>
            MetaOf(documents', getID(input.item)) =
              MergedMeta(MetaOf(documents, getID(input.item)),
                         Unwrap(input.meta), replaceMeta)
     /\ (MergeMeta("a", M0) /\ MetaOf(documents, "a") # Null) =>
          MetaOf(documents', "a") = MergedMeta(MetaOf(documents, "a"), M0, FALSE)]_vars

\* C19: reading documents, data, count or empty of an Endpoint leaves the
\* identity-to-Document map of the Database unchanged
C19_ReadsArePure ==
  [][(ReadDocuments \/ ReadData) => documents' = documents]_vars

----------------------------------------------------------------------------
(* C17, C18 *)

\* C17: the completion of a fetch of an Endpoint whose params are no longer the
\* params the fetch was issued with changes neither fetchStatus nor ids nor meta
C17_CompletionNeedsSameParams ==
  [][\A i \in 1..Len(invocations), settlement \in EpSettlements :
       (/\ kind = "Endpoint"
        /\ Settle(i, settlement)
        /\ ~objectEquals(ep.params, invocations[i].ownerParams))
       => OwnerState' = OwnerState]_vars

\* C18: on an Endpoint that is done, a setParams that changes the params with
\* fetch = 'refetch' invokes the performer with the new merged params and
\* leaves the Endpoint fetching, emptied first if clear is set
C18_ClearThenRefetch ==
  [][\A params \in ParamInputs, clear \in BOOLEAN, force \in BOOLEAN :
       (/\ kind = "Endpoint"
        /\ ep.fetchStatus = "done"
        /\ EpSetParams(params, "refetch", clear, force)
        /\ ~objectEquals(ep'.params, ep.params))
       => /\ InvokesWithNewParams
          /\ ep'.fetchStatus = "fetching"
          /\ clear => ep'.ids = <<>>]_vars

----------------------------------------------------------------------------
(* C20 *)

\* C20: a Document is not done right after one of its fetches or optimistic
\* updates completed with an error response or a rejection
C20_DoneMeansNotFailed ==
  [][/\ \A u \in 1..Len(updates), settlement \in UpdateSettlements :
          (/\ DocUpdateSettled(u, settlement)
           /\ settlement.state = "rejected" \/ isErrorResponse(settlement.value))
          => doc'.fetchStatus # "done"
     /\ \A i \in 1..Len(invocations), settlement \in DocSettlements :
          (/\ Settle(i, settlement)
           /\ settlement.state = "rejected" \/ isErrorResponse(settlement.value))
          => doc'.fetchStatus # "done"]_vars

----------------------------------------------------------------------------
(* C21, C22 *)

\* C21: when every performer invocation settles, a Document or Endpoint that is
\* fetching is eventually not fetching
C21_FetchingEnds ==
  (OwnerStatus = "fetching") ~> (OwnerStatus # "fetching")

\* C22: the completion of a fetch that settles right after clear(), with no
\* call on the owner in between, is not applied: the owner stays idle with the
\* data / ids and meta that clear() left
C22_ClearNotUndone ==
  [][\A i \in 1..Len(invocations), settlement \in Settlements :
       (last = "clear" /\ Settle(i, settlement))
       => (OwnerState' = OwnerState /\ OwnerStatus' = "idle")]_vars

====
